---- MODULE Spec2Model ----
(***************************************************************************)
(* A model of incremental-png: the three layers Dechunker, StreamDecoder   *)
(* and Inflater (src/src/lib.rs) and the driving loop of pngdump           *)
(* (src/pngdump/src/main.rs).  Bytes are the naturals 0..255, slices are   *)
(* sequences, and Option::None is the record None.                         *)
(***************************************************************************)
EXTENDS Naturals, Sequences, FiniteSets, TLC

\* ------------------------------------------------------------------ bounds
\* Longest decompressed payload B the streams carry.
MaxLen == 2
\* Largest number of bytes one read of the driver hands over, unless it
\* hands over all that is left.
MaxRead == 2
\* Largest output window (BUFFER_SIZE) an Inflater is built with.
MaxWindow == 3
\* Size of the decompressor's internal dictionary (its read-ahead of output).
DictSize == 2
\* Longest run one token of the stand-in codec encodes.
MaxRun == 2
\* Most passthrough events (ImageHeader, End) handed to an Inflater alone.
MaxPass == 1
\* Most calls made on a StreamDecoder alone.
MaxCalls == 7

\* --------------------------------------------------------------- helpers
None == [kind |-> "None"]

Min(a, b) == IF a < b THEN a ELSE b

Take(s, n) == SubSeq(s, 1, n)

Drop(s, n) == SubSeq(s, n + 1, Len(s))

\* u32::from_be_bytes
from_be_bytes(b) == ((b[1] * 256 + b[2]) * 256 + b[3]) * 256 + b[4]

\* ------------------------------------------------------------- dechunker
CHUNK_HEADER_SIZE == 8
CRC_SIZE == 4
PNG_SIGNATURE == <<137, 80, 78, 71, 13, 10, 26, 10>>

\* dechunker::State, one record shape for the four variants
PngSignatureState(pos) ==
    [tag |-> "PngSignature", pos |-> pos, buf |-> <<>>, remaining |-> 0]

ChunkHeaderState(buf) ==
    [tag |-> "ChunkHeader", pos |-> 0, buf |-> buf, remaining |-> 0]

InChunkState(remaining) ==
    [tag |-> "InChunk", pos |-> 0, buf |-> <<>>, remaining |-> remaining]

CRCState(buf) ==
    [tag |-> "CRC", pos |-> 0, buf |-> buf, remaining |-> 0]

BeginChunk(len, type) == [kind |-> "BeginChunk", len |-> len, type |-> type]

Data(bytes) == [kind |-> "Data", bytes |-> bytes]

EndChunk == [kind |-> "EndChunk"]

Dechunker_new == PngSignatureState(0)

\* Dechunker_eof without the test for an empty header buffer
Dechunker_eof_AnyHeader(st) ==
    IF st.tag = "ChunkHeader" THEN "Ok" ELSE "UnfinishedChunk"

\* Dechunker::eof
Dechunker_eof(st) ==
    IF st.tag = "ChunkHeader" /\ st.buf = <<>> THEN "Ok" ELSE "UnfinishedChunk"

DechunkerResult(err, st, n, event) ==
    [err |-> err, state |-> st, n |-> n, event |-> event]

\* SignatureMatches that compares with the start of the signature
SignatureMatches_FromStart(input, pos, n) ==
    Take(input, n) = SubSeq(PNG_SIGNATURE, 1, n)

\* &input[..n] != &PNG_SIGNATURE[*pos..*pos + n], negated
SignatureMatches(input, pos, n) ==
    Take(input, n) = SubSeq(PNG_SIGNATURE, pos + 1, pos + n)

\* UpdatePngSignature that moves on in the signature before it compares
UpdatePngSignature_Absorbing(st, input) ==
    LET n == Min(Len(input), Len(PNG_SIGNATURE) - st.pos)
        pos == st.pos + n
    IN  IF ~SignatureMatches(input, st.pos, n)
        THEN DechunkerResult("InvalidPngSignature",
                 IF pos = Len(PNG_SIGNATURE)
                 THEN ChunkHeaderState(<<>>) ELSE PngSignatureState(pos),
                 0, None)
        ELSE DechunkerResult("Ok",
                 IF pos = Len(PNG_SIGNATURE)
                 THEN ChunkHeaderState(<<>>) ELSE PngSignatureState(pos),
                 n, None)

\* UpdatePngSignature that consumes all of its input
UpdatePngSignature_Greedy(st, input) ==
    LET n == Min(Len(input), Len(PNG_SIGNATURE) - st.pos)
        pos == st.pos + n
    IN  IF ~SignatureMatches(input, st.pos, n)
        THEN DechunkerResult("InvalidPngSignature", st, 0, None)
        ELSE DechunkerResult("Ok",
                 IF pos = Len(PNG_SIGNATURE)
                 THEN ChunkHeaderState(<<>>) ELSE PngSignatureState(pos),
                 Len(input), None)

UpdatePngSignature(st, input) ==
    LET n == Min(Len(input), Len(PNG_SIGNATURE) - st.pos)
        pos == st.pos + n
    IN  IF ~SignatureMatches(input, st.pos, n)
        THEN DechunkerResult("InvalidPngSignature", st, 0, None)
        ELSE DechunkerResult("Ok",
                 IF pos = Len(PNG_SIGNATURE)
                 THEN ChunkHeaderState(<<>>) ELSE PngSignatureState(pos),
                 n, None)

\* UpdateChunkHeader that keeps the full header buffer as its state
UpdateChunkHeader_Lingering(st, input) ==
    LET n == Min(Len(input), CHUNK_HEADER_SIZE - Len(st.buf))
        buf == st.buf \o Take(input, n)
    IN  IF Len(buf) = CHUNK_HEADER_SIZE /\ Len(st.buf) = CHUNK_HEADER_SIZE
        THEN LET len == from_be_bytes(SubSeq(buf, 1, 4))
                 type == SubSeq(buf, 5, 8)
             IN  DechunkerResult("Ok", InChunkState(len), n, BeginChunk(len, type))
        ELSE DechunkerResult("Ok", ChunkHeaderState(buf), n, None)

\* UpdateChunkHeader that forgets the header bytes of earlier calls
UpdateChunkHeader_Forgetful(st, input) ==
    LET n == Min(Len(input), CHUNK_HEADER_SIZE - Len(st.buf))
        buf == Take(input, n)
    IN  IF Len(buf) = CHUNK_HEADER_SIZE
        THEN LET len == from_be_bytes(SubSeq(buf, 1, 4))
                 type == SubSeq(buf, 5, 8)
             IN  DechunkerResult("Ok", InChunkState(len), n, BeginChunk(len, type))
        ELSE DechunkerResult("Ok", ChunkHeaderState(buf), n, None)

UpdateChunkHeader(st, input) ==
    LET n == Min(Len(input), CHUNK_HEADER_SIZE - Len(st.buf))
        buf == st.buf \o Take(input, n)
    IN  IF Len(buf) = CHUNK_HEADER_SIZE
        THEN LET len == from_be_bytes(SubSeq(buf, 1, 4))
                 type == SubSeq(buf, 5, 8)
             IN  DechunkerResult("Ok", InChunkState(len), n, BeginChunk(len, type))
        ELSE DechunkerResult("Ok", ChunkHeaderState(buf), n, None)

\* InChunkEvent that emits only the first byte of what was consumed
InChunkEvent_FirstByte(input, n) == IF n = 0 THEN None ELSE Data(Take(input, 1))

\* InChunkEvent without the test for n = 0
InChunkEvent_Always(input, n) == Data(Take(input, n))

\* the event of an InChunk call that consumes n bytes
InChunkEvent(input, n) == IF n = 0 THEN None ELSE Data(Take(input, n))

\* UpdateInChunk that emits a Data event for every call, empty or not
UpdateInChunk_EmptyData(st, input) ==
    LET n == Min(Len(input), st.remaining)
    IN  DechunkerResult("Ok",
            IF st.remaining = n THEN CRCState(<<>>)
            ELSE InChunkState(st.remaining - n),
            n, Data(Take(input, n)))

\* UpdateInChunk that waits in InChunk for the payload of an empty chunk
UpdateInChunk_Waiting(st, input) ==
    LET n == Min(Len(input), st.remaining)
    IN  DechunkerResult("Ok",
            IF st.remaining = n /\ n > 0 THEN CRCState(<<>>)
            ELSE InChunkState(st.remaining - n),
            n, InChunkEvent(input, n))

UpdateInChunk(st, input) ==
    LET n == Min(Len(input), st.remaining)
    IN  DechunkerResult("Ok",
            IF st.remaining = n THEN CRCState(<<>>)
            ELSE InChunkState(st.remaining - n),
            n, InChunkEvent(input, n))

\* UpdateCRC that accepts only a check value of four zero bytes
UpdateCRC_Checking(st, input) ==
    LET n == Min(Len(input), CRC_SIZE - Len(st.buf))
        buf == st.buf \o Take(input, n)
    IN  IF Len(buf) = CRC_SIZE
        THEN IF buf = <<0, 0, 0, 0>>
             THEN DechunkerResult("Ok", ChunkHeaderState(<<>>), n, EndChunk)
             ELSE DechunkerResult("ChecksumMismatch", st, 0, None)
        ELSE DechunkerResult("Ok", CRCState(buf), n, None)

\* UpdateCRC that ends the chunk without an EndChunk event
UpdateCRC_Silent(st, input) ==
    LET n == Min(Len(input), CRC_SIZE - Len(st.buf))
        buf == st.buf \o Take(input, n)
    IN  IF Len(buf) = CRC_SIZE
        THEN DechunkerResult("Ok", ChunkHeaderState(<<>>), n, None)
        ELSE DechunkerResult("Ok", CRCState(buf), n, None)

UpdateCRC(st, input) ==
    LET n == Min(Len(input), CRC_SIZE - Len(st.buf))
        buf == st.buf \o Take(input, n)
    IN  IF Len(buf) = CRC_SIZE
        THEN DechunkerResult("Ok", ChunkHeaderState(<<>>), n, EndChunk)
        ELSE DechunkerResult("Ok", CRCState(buf), n, None)

\* Dechunker::update
Dechunker_update(st, input) ==
    CASE st.tag = "PngSignature" -> UpdatePngSignature(st, input)
      [] st.tag = "ChunkHeader" -> UpdateChunkHeader(st, input)
      [] st.tag = "InChunk" -> UpdateInChunk(st, input)
      [] st.tag = "CRC" -> UpdateCRC(st, input)

\* ---------------------------------------------------------------- palette
PALETTE_CAPACITY == 768

\* color_at with the bound test off by one entry
color_at_OffByOne(data, index) ==
    IF index * 3 > Len(data)
    THEN <<0, 0, 0>>
    ELSE SubSeq(data, index * 3 + 1, Min(Len(data), (index + 1) * 3))

\* Palette::color_at
color_at(data, index) ==
    IF (index + 1) * 3 > Len(data)
    THEN <<0, 0, 0>>
    ELSE SubSeq(data, index * 3 + 1, (index + 1) * 3)

\* --------------------------------------------------------- stream decoder
SIZE == 13
IHDR == <<73, 72, 68, 82>>
PLTE == <<80, 76, 84, 69>>
IDAT == <<73, 68, 65, 84>>
IEND == <<73, 69, 78, 68>>

\* stream_decoder::State; buf is the scratch buffer of the IHDR variant
SdState(tag, buf) == [tag |-> tag, buf |-> buf]

BeforeChunk == SdState("BeforeChunk", <<>>)

\* ImageHeader with width and height read from each other's bytes
ImageHeader_Swapped(buf) ==
    [kind |-> "ImageHeader",
     width |-> from_be_bytes(SubSeq(buf, 5, 8)),
     height |-> from_be_bytes(SubSeq(buf, 1, 4)),
     bit_depth |-> buf[9],
     colour_type |-> buf[10],
     compression_method |-> buf[11],
     filter_method |-> buf[12],
     interlace_method |-> buf[13]]

\* the ImageHeader event decoded from the 13 bytes of the scratch buffer
ImageHeader(buf) ==
    [kind |-> "ImageHeader",
     width |-> from_be_bytes(SubSeq(buf, 1, 4)),
     height |-> from_be_bytes(SubSeq(buf, 5, 8)),
     bit_depth |-> buf[9],
     colour_type |-> buf[10],
     compression_method |-> buf[11],
     filter_method |-> buf[12],
     interlace_method |-> buf[13]]

ImageData(bytes) == [kind |-> "ImageData", bytes |-> bytes]

End == [kind |-> "End"]

\* StreamDecoder_eof that asks for the end of the chunk in progress
StreamDecoder_eof_BetweenChunks(st) ==
    IF st.tag = "BeforeChunk" THEN "Ok" ELSE "UnfinishedChunk"

\* StreamDecoder::eof
StreamDecoder_eof(st) == "Ok"

\* SdResult that hands the chunk event's successor back as a leftover
SdResult_Leftover(err, st, palette, event) ==
    [err |-> err, state |-> st, palette |-> palette,
     leftover |-> IF err = "Ok" /\ event # None THEN EndChunk ELSE None,
     event |-> event]

\* what update returns, with the state and palette it leaves behind; every
\* Ok of update has None as its first component
SdResult(err, st, palette, event) ==
    [err |-> err, state |-> st, palette |-> palette, leftover |-> None,
     event |-> event]

\* PaletteSizeOk without the upper limit
PaletteSizeOk_NoLimit(len) == len % 3 = 0

\* len % 3 != 0 || len > 256 * 3, negated
PaletteSizeOk(len) == len % 3 = 0 /\ len <= 256 * 3

\* BeginChunkError that accepts an IHDR chunk of any length
BeginChunkError_AnyHeaderLength(len, type) ==
    CASE type = IHDR -> "Ok"
      [] type = IDAT -> "Ok"
      [] type = IEND -> IF len # 0 THEN "InvalidEndChunkSize" ELSE "Ok"
      [] type = PLTE -> IF ~PaletteSizeOk(len) THEN "InvalidPaletteChunkSize" ELSE "Ok"
      [] OTHER -> "Ok"

\* the error a BeginChunk header is refused with, "Ok" when it is accepted
BeginChunkError(len, type) ==
    CASE type = IHDR -> IF len # SIZE THEN "InvalidImageHeaderLength" ELSE "Ok"
      [] type = IDAT -> "Ok"
      [] type = IEND -> IF len # 0 THEN "InvalidEndChunkSize" ELSE "Ok"
      [] type = PLTE -> IF ~PaletteSizeOk(len) THEN "InvalidPaletteChunkSize" ELSE "Ok"
      [] OTHER -> "Ok"

\* the state a BeginChunk of this type enters
BeginChunkState(type) ==
    CASE type = IHDR -> SdState("IHDR", <<>>)
      [] type = IDAT -> SdState("IDAT", <<>>)
      [] type = IEND -> SdState("IEND", <<>>)
      [] type = PLTE -> SdState("PLTE", <<>>)
      [] OTHER -> SdState("IgnoredChunk", <<>>)

\* UpdateBeforeChunk that refuses image data, as if no header had been seen
UpdateBeforeChunk_HeaderFirst(st, palette, input) ==
    IF input.kind = "BeginChunk"
    THEN IF input.type = IDAT
         THEN SdResult("NoImageHeader", st, palette, None)
         ELSE IF BeginChunkError(input.len, input.type) # "Ok"
         THEN SdResult(BeginChunkError(input.len, input.type), st, palette, None)
         ELSE SdResult("Ok", BeginChunkState(input.type), palette, None)
    ELSE SdResult("panic: Illegal event in BeforeChunk state", st, palette, None)

UpdateBeforeChunk(st, palette, input) ==
    IF input.kind = "BeginChunk"
    THEN IF BeginChunkError(input.len, input.type) # "Ok"
         THEN SdResult(BeginChunkError(input.len, input.type), st, palette, None)
         ELSE SdResult("Ok", BeginChunkState(input.type), palette, None)
    ELSE SdResult("panic: Illegal event in BeforeChunk state", st, palette, None)

\* UpdateIHDR that keeps only the last slice of the payload
UpdateIHDR_LastSlice(st, palette, input) ==
    CASE input.kind = "Data" ->
           SdResult("Ok", SdState("IHDR", input.bytes), palette, None)
      [] input.kind = "EndChunk" ->
           IF Len(st.buf) # SIZE
           THEN SdResult("panic: Got IHDR EndChunk, but buffer is not filled!",
                         st, palette, None)
           ELSE SdResult("Ok", BeforeChunk, palette, ImageHeader(st.buf))
      [] OTHER ->
           SdResult("panic: Illegal BeginChunk inside of existing chunk",
                    st, palette, None)

UpdateIHDR(st, palette, input) ==
    CASE input.kind = "Data" ->
           IF Len(st.buf) + Len(input.bytes) > SIZE
           THEN SdResult("panic: Too much data in IHDR chunk", st, palette, None)
           ELSE SdResult("Ok", SdState("IHDR", st.buf \o input.bytes), palette, None)
      [] input.kind = "EndChunk" ->
           IF Len(st.buf) # SIZE
           THEN SdResult("panic: Got IHDR EndChunk, but buffer is not filled!",
                         st, palette, None)
           ELSE SdResult("Ok", BeforeChunk, palette, ImageHeader(st.buf))
      [] OTHER ->
           SdResult("panic: Illegal BeginChunk inside of existing chunk",
                    st, palette, None)

UpdatePLTE(st, palette, input) ==
    CASE input.kind = "Data" ->
           IF Len(palette) + Len(input.bytes) > PALETTE_CAPACITY
           THEN SdResult("panic: Too much data in PLTE chunk", st, palette, None)
           ELSE SdResult("Ok", st, palette \o input.bytes, None)
      [] input.kind = "EndChunk" -> SdResult("Ok", BeforeChunk, palette, None)
      [] OTHER -> SdResult("panic: Illegal event inside PLTE chunk", st, palette, None)

UpdateIDAT(st, palette, input) ==
    CASE input.kind = "Data" -> SdResult("Ok", st, palette, ImageData(input.bytes))
      [] input.kind = "EndChunk" -> SdResult("Ok", BeforeChunk, palette, None)
      [] OTHER -> SdResult("panic: Illegal event inside IDAT chunk", st, palette, None)

\* UpdateIgnoredChunk that forwards the payload as image data
UpdateIgnoredChunk_Forwarding(st, palette, input) ==
    CASE input.kind = "Data" -> SdResult("Ok", st, palette, ImageData(input.bytes))
      [] input.kind = "EndChunk" -> SdResult("Ok", BeforeChunk, palette, None)
      [] OTHER -> SdResult("panic: Illegal event inside ignored chunk", st, palette, None)

UpdateIgnoredChunk(st, palette, input) ==
    CASE input.kind = "Data" -> SdResult("Ok", st, palette, None)
      [] input.kind = "EndChunk" -> SdResult("Ok", BeforeChunk, palette, None)
      [] OTHER -> SdResult("panic: Illegal event inside ignored chunk", st, palette, None)

UpdateIEND(st, palette, input) ==
    CASE input.kind = "Data" -> SdResult("panic: Data in IEND chunk", st, palette, None)
      [] input.kind = "EndChunk" -> SdResult("Ok", BeforeChunk, palette, End)
      [] OTHER -> SdResult("panic: Illegal event inside IEND chunk", st, palette, None)

\* StreamDecoder::update
StreamDecoder_update(st, palette, input) ==
    CASE st.tag = "BeforeChunk" -> UpdateBeforeChunk(st, palette, input)
      [] st.tag = "IHDR" -> UpdateIHDR(st, palette, input)
      [] st.tag = "PLTE" -> UpdatePLTE(st, palette, input)
      [] st.tag = "IDAT" -> UpdateIDAT(st, palette, input)
      [] st.tag = "IgnoredChunk" -> UpdateIgnoredChunk(st, palette, input)
      [] st.tag = "IEND" -> UpdateIEND(st, palette, input)

\* --------------------------------------------------------------- inflater
(***************************************************************************)
(* miniz_oxide is a crate outside this repository.  Its zlib format is     *)
(* replaced by a run-length codec with the same framing (a header byte,    *)
(* tokens, an end token, a checksum over the decompressed bytes) and its   *)
(* streaming interface is kept: inflate() reports a status, bytes_consumed *)
(* and bytes_written, decodes ahead of the caller into its own dictionary, *)
(* hands the dictionary out before it reads again, and keeps a failure or  *)
(* the end of the stream for good.                                         *)
(***************************************************************************)
\* the first byte of a zlib stream (CMF, 0x78)
ZHDR == 120

\* the running checksum after one more decompressed byte
ChecksumStep(sum, b) == (sum + b) % 251

RECURSIVE Checksum(_)
\* the checksum of B, the last byte of its compressed stream
Checksum(B) ==
    IF B = <<>> THEN 1
    ELSE ChecksumStep(Checksum(Take(B, Len(B) - 1)), B[Len(B)])

RECURSIVE RunLength(_)
\* the length of the run B starts with, at most MaxRun
RunLength(B) ==
    IF B = <<>> THEN 0
    ELSE IF Len(B) = 1 \/ B[1] # B[2] THEN 1
    ELSE Min(MaxRun, 1 + RunLength(Drop(B, 1)))

RECURSIVE Tokens(_)
Tokens(B) ==
    IF B = <<>> THEN <<>>
    ELSE <<RunLength(B), B[1]>> \o Tokens(Drop(B, RunLength(B)))

\* miniz_oxide::deflate::compress_to_vec_zlib
compress_to_vec_zlib(B) == <<ZHDR>> \o Tokens(B) \o <<0>> \o <<Checksum(B)>>

\* InflateState: the position in the stream (phase, cnt, val), the running
\* checksum, and the decoded bytes not yet handed to the caller (dict)
Decompressor(phase, cnt, val, sum, dict) ==
    [phase |-> phase, cnt |-> cnt, val |-> val, sum |-> sum, dict |-> dict]

InflateState_new == Decompressor("Header", 0, 0, 1, <<>>)

RECURSIVE decompress(_, _, _)
\* one run of the core decompressor: reads input and decodes into the
\* dictionary until the input is used up, the dictionary is full, the
\* stream ends or is found invalid
decompress(dec, input, in_bytes) ==
    LET more == in_bytes < Len(input)
        b == input[in_bytes + 1]
        stop(status) == [dec |-> dec, in_bytes |-> in_bytes, status |-> status]
        fail == [dec |-> [dec EXCEPT !.phase = "Failed"],
                 in_bytes |-> in_bytes + 1, status |-> "Failed"]
    IN  CASE dec.phase = "Header" ->
               IF ~more THEN stop("NeedsMoreInput")
               ELSE IF b = ZHDR
                    THEN decompress([dec EXCEPT !.phase = "Token"], input, in_bytes + 1)
                    ELSE fail
          [] dec.phase = "Token" ->
               IF ~more THEN stop("NeedsMoreInput")
               ELSE IF b = 0
                    THEN decompress([dec EXCEPT !.phase = "Trailer"], input, in_bytes + 1)
                    ELSE IF b <= MaxRun
                         THEN decompress([dec EXCEPT !.phase = "Value", !.cnt = b],
                                         input, in_bytes + 1)
                         ELSE fail
          [] dec.phase = "Value" ->
               IF ~more THEN stop("NeedsMoreInput")
               ELSE decompress([dec EXCEPT !.phase = "Run", !.val = b], input, in_bytes + 1)
          [] dec.phase = "Run" ->
               IF dec.cnt = 0
               THEN decompress([dec EXCEPT !.phase = "Token"], input, in_bytes)
               ELSE IF Len(dec.dict) >= DictSize THEN stop("HasMoreOutput")
                    ELSE decompress([dec EXCEPT !.cnt = dec.cnt - 1,
                                                !.sum = ChecksumStep(dec.sum, dec.val),
                                                !.dict = Append(dec.dict, dec.val)],
                                    input, in_bytes)
          [] dec.phase = "Trailer" ->
               IF ~more THEN stop("NeedsMoreInput")
               ELSE IF b = dec.sum
                    THEN [dec |-> [dec EXCEPT !.phase = "Done"],
                          in_bytes |-> in_bytes + 1, status |-> "Done"]
                    ELSE fail
          [] dec.phase = "Done" -> stop("Done")
          [] OTHER -> stop("Failed")

StreamResult(status, dec, consumed, out) ==
    [status |-> status, dec |-> dec, bytes_consumed |-> consumed, out |-> out]

RECURSIVE inflate_loop(_, _, _, _, _, _)
inflate_loop(dec, input, cap, consumed, out, orig_in_len) ==
    LET r == decompress(dec, input, 0)
        n == Min(Len(r.dec.dict), cap - Len(out))
        out1 == out \o Take(r.dec.dict, n)
        dec1 == [r.dec EXCEPT !.dict = Drop(r.dec.dict, n)]
        next_in == Drop(input, r.in_bytes)
        total_in == consumed + r.in_bytes
    IN  IF r.status = "Failed" THEN StreamResult("ErrData", dec1, total_in, out1)
        ELSE IF r.status = "NeedsMoreInput" /\ orig_in_len = 0
             THEN StreamResult("ErrBuf", dec1, total_in, out1)
        ELSE IF r.status = "Done" \/ next_in = <<>> \/ Len(out1) = cap
                \/ dec1.dict # <<>>
             THEN StreamResult(IF r.status = "Done" /\ dec1.dict = <<>>
                               THEN "StreamEnd" ELSE "Ok",
                               dec1, total_in, out1)
        ELSE inflate_loop(dec1, next_in, cap, total_in, out1, orig_in_len)

\* miniz_oxide::inflate::stream::inflate(state, input, output, MZFlush::None)
\* on an output window of cap bytes
inflate(dec, input, cap) ==
    IF dec.phase = "Failed" THEN StreamResult("ErrData", dec, 0, <<>>)
    ELSE IF dec.dict # <<>>
         THEN LET n == Min(Len(dec.dict), cap)
                  dec1 == [dec EXCEPT !.dict = Drop(dec.dict, n)]
              IN  StreamResult(IF dec.phase = "Done" /\ dec1.dict = <<>>
                               THEN "StreamEnd" ELSE "Ok",
                               dec1, 0, Take(dec.dict, n))
    ELSE inflate_loop(dec, input, cap, 0, <<>>, Len(input))

\* what update returns, with the decompressor and window it leaves behind and
\* the step's bytes_consumed and bytes_written
InflaterResult(err, dec, output_buf, leftover, event, consumed, written) ==
    [err |-> err, decompressor |-> dec, output_buf |-> output_buf,
     leftover |-> leftover, event |-> event,
     bytes_consumed |-> consumed, bytes_written |-> written]

\* StatusError that takes the buffer status for a failure
StatusError_BufFails(status, input) ==
    CASE status = "ErrData" -> "InvalidDeflateStream"
      [] status = "ErrBuf" -> "panic: buffer error"
      [] OTHER -> "Ok"

\* the failure the status of a decompression step ends update with, "Ok"
\* when update goes on
StatusError(status, input) ==
    CASE status = "ErrData" -> "InvalidDeflateStream"
      [] status = "ErrBuf" ->
           IF input # <<>> THEN "panic: buffer error" ELSE "Ok"
      [] OTHER -> "Ok"

\* LeftoverInput without the arm for a filled output window
LeftoverInput_NoSentinel(input, bytes_consumed, bytes_written, cap) ==
    IF bytes_consumed < Len(input) THEN ImageData(Drop(input, bytes_consumed))
    ELSE None

\* leftover_input
LeftoverInput(input, bytes_consumed, bytes_written, cap) ==
    IF bytes_consumed < Len(input) THEN ImageData(Drop(input, bytes_consumed))
    ELSE IF bytes_written = cap THEN ImageData(<<>>)
    ELSE None

\* the output window after a step wrote out at its start
Written(output_buf, out) == out \o Drop(output_buf, Len(out))

\* Passthrough that clears the output window
Passthrough_Clearing(dec, output_buf, input) ==
    [err |-> "Ok", decompressor |-> dec,
     output_buf |-> [i \in 1..Len(output_buf) |-> 0],
     leftover |-> None, event |-> input, bytes_consumed |-> 0, bytes_written |-> 0]

\* the ImageHeader and End arms of update
Passthrough(dec, output_buf, input) ==
    InflaterResult("Ok", dec, output_buf, None, input, 0, 0)

\* UpdateImageData that emits the whole output window
UpdateImageData_WholeWindow(dec, output_buf, input) ==
    LET result == inflate(dec, input, Len(output_buf))
        err == StatusError(result.status, input)
        buf == Written(output_buf, result.out)
    IN  IF err # "Ok"
        THEN InflaterResult(err, result.dec, buf, None, None,
                            result.bytes_consumed, Len(result.out))
        ELSE InflaterResult("Ok", result.dec, buf,
                 LeftoverInput(input, result.bytes_consumed,
                               Len(result.out), Len(output_buf)),
                 ImageData(buf),
                 result.bytes_consumed, Len(result.out))

\* the ImageData arm of update
UpdateImageData(dec, output_buf, input) ==
    LET result == inflate(dec, input, Len(output_buf))
        err == StatusError(result.status, input)
        buf == Written(output_buf, result.out)
    IN  IF err # "Ok"
        THEN InflaterResult(err, result.dec, buf, None, None,
                            result.bytes_consumed, Len(result.out))
        ELSE InflaterResult("Ok", result.dec, buf,
                 LeftoverInput(input, result.bytes_consumed,
                               Len(result.out), Len(output_buf)),
                 ImageData(Take(buf, Len(result.out))),
                 result.bytes_consumed, Len(result.out))

\* Inflater::update
Inflater_update(dec, output_buf, input) ==
    IF input.kind = "ImageData"
    THEN UpdateImageData(dec, output_buf, input.bytes)
    ELSE Passthrough(dec, output_buf, input)

Inflater_new(cap) == [decompressor |-> InflateState_new,
                      output_buf |-> [i \in 1..cap |-> 0]]

\* ------------------------------------------------------------ the streams
\* a chunk length as its four big-endian bytes
to_be_bytes(n) == <<0, 0, n \div 256, n % 256>>

\* one chunk of the framing: length, type, payload, check value
Chunk(type, payload, crc) == to_be_bytes(Len(payload)) \o type \o payload \o crc

tEXt == <<116, 69, 88, 116>>

\* the values of decompressed bytes
ByteVals == {5, 6}

RECURSIVE SeqsUpTo(_, _)
\* the sequences over S of length at most n
SeqsUpTo(S, n) ==
    IF n = 0 THEN {<<>>}
    ELSE LET shorter == SeqsUpTo(S, n - 1)
         IN  shorter \cup {Append(q, x) : q \in {t \in shorter : Len(t) = n - 1}, x \in S}

Payloads == SeqsUpTo(ByteVals, MaxLen)

Header1 == <<0, 0, 0, 1, 0, 0, 0, 2, 3, 4, 5, 6, 7>>
Header2 == <<0, 0, 1, 2, 0, 3, 0, 4, 8, 3, 0, 0, 1>>

Crc0 == <<0, 0, 0, 0>>
Crc1 == <<222, 173, 190, 239>>

\* signature, IHDR, the chunks in mid, the zlib stream of B cut into two
\* IDAT chunks after k bytes (one chunk for k = Len), IEND
PngStream(h, mid, B, k) ==
    LET z == compress_to_vec_zlib(B)
    IN  PNG_SIGNATURE \o Chunk(IHDR, h, Crc1) \o mid
        \o (IF k >= Len(z) THEN Chunk(IDAT, z, Crc1)
            ELSE Chunk(IDAT, Take(z, k), Crc0) \o Chunk(IDAT, Drop(z, k), Crc1))
        \o Chunk(IEND, <<>>, Crc0)

\* what a valid stream is built from, kept to tell what it must decode to
ValidParts ==
    {[h |-> Header1, mid |-> <<>>, B |-> B, k |-> 99] : B \in Payloads}
    \cup {[h |-> Header2, mid |-> Chunk(PLTE, <<1, 2, 3, 4, 5, 6>>, Crc0),
           B |-> <<5, 5, 6>>, k |-> k] : k \in {0, 3}}
    \cup {[h |-> Header2, mid |-> Chunk(tEXt, <<65, 66>>, Crc1),
           B |-> <<6>>, k |-> k] : k \in {1, 99}}

StreamOf(p) == PngStream(p.h, p.mid, p.B, p.k)

ValidStreams == {StreamOf(p) : p \in ValidParts}

\* a signature with byte k wrong, followed by the start of a chunk
BadSignature(k) ==
    [PNG_SIGNATURE EXCEPT ![k] = 0] \o <<0, 0>>

InvalidStreams ==
    {BadSignature(k) : k \in 1..8} \cup {<<116, 104, 101>>}
    \cup {Take(PNG_SIGNATURE, 5) \o <<1>>}

Streams == ValidStreams \cup InvalidStreams

\* ------------------------------------------------------------- the driver
VARIABLES
    stream,        \* the bytes of the file
    fpos,          \* how many of them have been read
    reads,         \* how many reads delivered them: 0, 1, or 2 for two and more
    input,         \* main: the unconsumed rest of the bytes last read
    d_state,       \* Dechunker.state
    sd_state,      \* StreamDecoder.state
    palette,       \* StreamDecoder.palette.data
    decompressor,  \* Inflater.decompressor
    output_buf,    \* Inflater.output_buf
    dc_event,      \* main: the Dechunker event not yet given to StreamDecoder
    sd_event,      \* main: the StreamDecoder event or leftover not yet given to Inflater
    err,           \* "Ok", or the Err or panic that ended the run
    last,          \* the last call made on a layer: its arguments and result
    dc_trace,      \* the Dechunker events so far, neighbouring Data joined
    out            \* the Inflater events so far, neighbouring ImageData joined

vars == <<stream, fpos, reads, input, d_state, sd_state, palette, decompressor,
          output_buf, dc_event, sd_event, err, last, dc_trace, out>>

\* a trace with one more event; payloads of neighbouring data events are joined
Note(trace, ev) ==
    IF ev = None THEN trace
    ELSE IF ev.kind \in {"Data", "ImageData"} /\ trace # <<>>
            /\ trace[Len(trace)].kind = ev.kind
         THEN [trace EXCEPT ![Len(trace)].bytes = @ \o ev.bytes]
         ELSE Append(trace, ev)

\* the sizes a read of the file may return when rest bytes are left
ReadSizes(rest) == {n \in 1..MaxRead : n <= rest} \cup {rest}

Windows == {[i \in 1..w |-> 0] : w \in 1..MaxWindow}

Init ==
    /\ stream \in Streams
    /\ fpos = 0
    /\ reads = 0
    /\ input = <<>>
    /\ d_state = Dechunker_new
    /\ sd_state = BeforeChunk
    /\ palette = <<>>
    /\ decompressor = InflateState_new
    /\ output_buf \in Windows
    /\ dc_event = None
    /\ sd_event = None
    /\ err = "Ok"
    /\ last = [op |-> "new"]
    /\ dc_trace = <<>>
    /\ out = <<>>

Idle == err = "Ok" /\ dc_event = None /\ sd_event = None

\* main: file.read(&mut buf)
Read ==
    /\ Idle
    /\ input = <<>>
    /\ fpos < Len(stream)
    /\ \E n \in ReadSizes(Len(stream) - fpos) :
         /\ input' = SubSeq(stream, fpos + 1, fpos + n)
         /\ fpos' = fpos + n
    /\ reads' = Min(2, reads + 1)
    /\ UNCHANGED <<stream, d_state, sd_state, palette, decompressor, output_buf,
                   dc_event, sd_event, err, last, dc_trace, out>>

\* main: dechunker.update(&input), then input = &input[consumed..]
DechunkerStep ==
    /\ Idle
    /\ input # <<>>
    /\ LET r == Dechunker_update(d_state, input)
       IN  /\ last' = [op |-> "Dechunker.update", pre |-> d_state, input |-> input,
                       err |-> r.err, n |-> r.n, event |-> r.event, post |-> r.state]
           /\ err' = r.err
           /\ d_state' = r.state
           /\ input' = Drop(input, r.n)
           /\ dc_event' = r.event
           /\ dc_trace' = Note(dc_trace, r.event)
    /\ UNCHANGED <<stream, fpos, reads, sd_state, palette, decompressor, output_buf,
                   sd_event, out>>

\* Dechunker::eof, asked between two calls of update
DechunkerEof ==
    /\ Idle
    /\ last' = [op |-> "Dechunker.eof", pre |-> d_state,
                result |-> Dechunker_eof(d_state)]
    /\ UNCHANGED <<stream, fpos, reads, input, d_state, sd_state, palette, decompressor,
                   output_buf, dc_event, sd_event, err, dc_trace, out>>

\* StreamDecoder::eof, asked between two calls of update
StreamDecoderEof ==
    /\ Idle
    /\ last' = [op |-> "StreamDecoder.eof", pre |-> sd_state,
                pre_palette |-> palette, result |-> StreamDecoder_eof(sd_state)]
    /\ UNCHANGED <<stream, fpos, reads, input, d_state, sd_state, palette, decompressor,
                   output_buf, dc_event, sd_event, err, dc_trace, out>>

\* main: sd.update(e) on the pending Dechunker event
StreamDecoderStep ==
    /\ err = "Ok"
    /\ dc_event # None
    /\ sd_event = None
    /\ LET r == StreamDecoder_update(sd_state, palette, dc_event)
       IN  /\ last' = [op |-> "StreamDecoder.update", pre |-> sd_state,
                       pre_palette |-> palette, input |-> dc_event, err |-> r.err,
                       leftover |-> r.leftover, event |-> r.event, post |-> r.state]
           /\ err' = r.err
           /\ sd_state' = r.state
           /\ palette' = r.palette
           /\ dc_event' = r.leftover
           /\ sd_event' = r.event
    /\ UNCHANGED <<stream, fpos, reads, input, d_state, decompressor, output_buf,
                   dc_trace, out>>

\* main: inflater.update(e) on the pending StreamDecoder event or leftover
InflaterStep ==
    /\ err = "Ok"
    /\ sd_event # None
    /\ LET r == Inflater_update(decompressor, output_buf, sd_event)
       IN  /\ last' = [op |-> "Inflater.update", pre |-> decompressor,
                       pre_buf |-> output_buf, input |-> sd_event, err |-> r.err,
                       leftover |-> r.leftover, event |-> r.event,
                       bytes_consumed |-> r.bytes_consumed,
                       bytes_written |-> r.bytes_written]
           /\ err' = r.err
           /\ decompressor' = r.decompressor
           /\ output_buf' = r.output_buf
           /\ sd_event' = r.leftover
           /\ out' = Note(out, r.event)
    /\ UNCHANGED <<stream, fpos, reads, input, d_state, sd_state, palette, dc_event,
                   dc_trace>>

Next ==
    \/ Read
    \/ DechunkerStep
    \/ DechunkerEof
    \/ StreamDecoderEof
    \/ StreamDecoderStep
    \/ InflaterStep

Spec == Init /\ [][Next]_vars

\* print_window_size on the ImageData event e of the StreamDecoder: the
\* window size read off the first byte, or the panic of data[0] on an empty
\* slice
window_size(e) ==
    IF e.bytes = <<>> THEN [err |-> "panic: index out of bounds", size |-> 0]
    ELSE [err |-> "Ok", size |-> 2 ^ ((e.bytes[1] \div 16) + 8)]

\* main has read the whole file and drained every layer
Finished == Idle /\ input = <<>> /\ fpos = Len(stream)

\* ------------------------------------------------- the Inflater alone
\* Inflater::update called as in inflater::tests: the bytes of stream are
\* the ImageData payloads, in any slices, each drained to leftover None.

\* a zlib stream with a wrong header, a wrong token or a wrong checksum, and
\* whole streams with bytes after their end
InvalidZStreams ==
    {<<121, 1, 5, 0, 6>>, <<ZHDR, 255, 5, 0, 6>>, <<ZHDR, 1, 5, 0, 7>>}
    \cup {compress_to_vec_zlib(B) \o <<9>> : B \in {<<>>, <<5, 6>>}}

ZStreams == {compress_to_vec_zlib(B) : B \in Payloads} \cup InvalidZStreams

InitInflater ==
    /\ stream \in ZStreams
    /\ fpos = 0
    /\ reads = 0
    /\ input = <<>>
    /\ d_state = Dechunker_new
    /\ sd_state = BeforeChunk
    /\ palette = <<>>
    /\ decompressor = InflateState_new
    /\ output_buf \in Windows
    /\ dc_event = None
    /\ sd_event = None
    /\ err = "Ok"
    /\ last = [op |-> "new"]
    /\ dc_trace = <<>>
    /\ out = <<>>

\* the next n bytes of the stream become an ImageData event; n may be 0
FeedImageData ==
    /\ Idle
    /\ \E n \in {0} \cup ReadSizes(Len(stream) - fpos) :
         /\ sd_event' = ImageData(SubSeq(stream, fpos + 1, fpos + n))
         /\ fpos' = fpos + n
    /\ reads' = Min(2, reads + 1)
    /\ UNCHANGED <<stream, input, d_state, sd_state, palette, decompressor,
                   output_buf, dc_event, err, last, dc_trace, out>>

\* an ImageHeader or End event is handed over between two payloads
FeedPassthrough ==
    /\ Idle
    /\ Cardinality({i \in 1..Len(out) : out[i].kind # "ImageData"}) < MaxPass
    /\ \E ev \in {ImageHeader(Header1), End} : sd_event' = ev
    /\ UNCHANGED <<stream, fpos, reads, input, d_state, sd_state, palette,
                   decompressor, output_buf, dc_event, err, last, dc_trace, out>>

NextInflater ==
    \/ FeedImageData
    \/ FeedPassthrough
    \/ InflaterStep

SpecInflater == InitInflater /\ [][NextInflater]_vars

\* ------------------------------------------- streams of unusual chunks
\* The driver of pngdump on streams whose chunks are out of the ordinary:
\* two palettes, wrong lengths, wrong order, a cut in the middle of a chunk,
\* and on one whose signature is wrong in its sixth byte.
ZOne == compress_to_vec_zlib(<<5>>)

\* a stream with the right signature and IHDR chunk, then these chunks
WithHeader(chunks) == PNG_SIGNATURE \o Chunk(IHDR, Header2, Crc1) \o chunks

OddStreams ==
    { \* a full palette, then a second PLTE chunk
      WithHeader(Chunk(PLTE, [i \in 1..PALETTE_CAPACITY |-> i % 256], Crc1)
                 \o Chunk(PLTE, <<1, 2, 3>>, Crc0)
                 \o Chunk(IDAT, ZOne, Crc1) \o Chunk(IEND, <<>>, Crc0)),
      \* two small palettes
      WithHeader(Chunk(PLTE, <<1, 2, 3>>, Crc1) \o Chunk(PLTE, <<4, 5, 6>>, Crc0)
                 \o Chunk(IDAT, ZOne, Crc1) \o Chunk(IEND, <<>>, Crc0)),
      \* a palette whose length is no multiple of 3
      WithHeader(Chunk(PLTE, <<1, 2, 3, 4>>, Crc1)),
      \* an IEND chunk with a payload
      WithHeader(Chunk(IEND, <<1>>, Crc1)),
      \* IHDR chunks of 14 and of 4 bytes
      PNG_SIGNATURE \o Chunk(IHDR, Header1 \o <<0>>, Crc1),
      PNG_SIGNATURE \o Chunk(IHDR, <<0, 0, 0, 1>>, Crc1),
      \* image data before the header, then a second header
      PNG_SIGNATURE \o Chunk(IDAT, ZOne, Crc1) \o Chunk(IEND, <<>>, Crc0)
          \o Chunk(IHDR, Header1, Crc1),
      \* an ignored chunk, then image data that is no zlib stream
      WithHeader(Chunk(tEXt, <<65>>, Crc1) \o Chunk(IDAT, <<1, 2>>, Crc1)),
      \* a stream that stops inside the payload of a chunk
      WithHeader(Take(Chunk(IDAT, ZOne, Crc1), 10)),
      \* a wrong signature
      BadSignature(6) }

InitChunks ==
    /\ stream \in OddStreams
    /\ fpos = 0
    /\ reads = 0
    /\ input = <<>>
    /\ d_state = Dechunker_new
    /\ sd_state = BeforeChunk
    /\ palette = <<>>
    /\ decompressor = InflateState_new
    /\ output_buf = [i \in 1..MaxWindow |-> 0]
    /\ dc_event = None
    /\ sd_event = None
    /\ err = "Ok"
    /\ last = [op |-> "new"]
    /\ dc_trace = <<>>
    /\ out = <<>>

SpecChunks == InitChunks /\ [][Next]_vars

\* --------------------------------------------- the StreamDecoder alone
\* StreamDecoder::update called as in stream_decoder::tests, with any chunk
\* event in any state, and Palette::color_at asked in between.
ChunkLens == {0, 3, 4, 13, 14, 765, 768, 769, 771}

ChunkTypes == {IHDR, PLTE, IDAT, IEND, tEXt}

DataLens == {0, 1, 3, 13, 765}

Indices == {0, 1, 2, 127, 254, 255}

\* n payload bytes that follow fill earlier ones: byte i of a payload is i mod 256
Pattern(fill, n) == [i \in 1..n |-> (fill + i) % 256]

\* how many payload bytes of the chunk in progress are stored
Fill == IF sd_state.tag = "IHDR" THEN Len(sd_state.buf)
        ELSE IF sd_state.tag = "PLTE" THEN Len(palette)
        ELSE 0

ChunkEvents ==
    {BeginChunk(len, type) : len \in ChunkLens, type \in ChunkTypes}
    \cup {Data(Pattern(Fill, n)) : n \in DataLens}
    \cup {EndChunk}

InitDecoder ==
    /\ stream = <<>>
    /\ fpos = 0
    /\ reads = 0
    /\ input = <<>>
    /\ d_state = Dechunker_new
    /\ sd_state = BeforeChunk
    /\ palette = <<>>
    /\ decompressor = InflateState_new
    /\ output_buf = <<0>>
    /\ dc_event = None
    /\ sd_event = None
    /\ err = "Ok"
    /\ last = [op |-> "new"]
    /\ dc_trace = <<>>
    /\ out = <<>>

\* sd.update(ev); fpos counts the calls
DecoderCall ==
    /\ err = "Ok"
    /\ fpos < MaxCalls
    /\ \E ev \in ChunkEvents :
         LET r == StreamDecoder_update(sd_state, palette, ev)
         IN  /\ last' = [op |-> "StreamDecoder.update", pre |-> sd_state,
                         pre_palette |-> palette, input |-> ev, err |-> r.err,
                         leftover |-> r.leftover, event |-> r.event, post |-> r.state]
             /\ err' = r.err
             /\ sd_state' = r.state
             /\ palette' = r.palette
    /\ fpos' = fpos + 1
    /\ UNCHANGED <<stream, reads, input, d_state, decompressor, output_buf,
                   dc_event, sd_event, dc_trace, out>>

\* sd.palette().color_at(index)
ColorAt ==
    /\ err = "Ok"
    /\ \E index \in Indices :
         last' = [op |-> "Palette.color_at", index |-> index,
                  result |-> color_at(palette, index)]
    /\ UNCHANGED <<stream, fpos, reads, input, d_state, sd_state, palette,
                   decompressor, output_buf, dc_event, sd_event, err, dc_trace, out>>

NextDecoder ==
    \/ DecoderCall
    \/ ColorAt

SpecDecoder == InitDecoder /\ [][NextDecoder]_vars

\* ------------------------------------------------ the stream in one slice
RECURSIVE RunInflater(_, _, _, _)
\* main's innermost loop: update on ev and on every leftover it returns
RunInflater(dec, buf, ev, trace) ==
    LET r == Inflater_update(dec, buf, ev)
        t == Note(trace, r.event)
    IN  IF r.err # "Ok" \/ r.leftover = None
        THEN [err |-> r.err, dec |-> r.decompressor, buf |-> r.output_buf, out |-> t]
        ELSE RunInflater(r.decompressor, r.output_buf, r.leftover, t)

RECURSIVE RunSlice(_, _, _, _, _, _, _)
\* main's loop over one slice: while !input.is_empty()
RunSlice(ds, sds, pal, dec, buf, bytes, trace) ==
    IF bytes = <<>>
    THEN [err |-> "Ok", out |-> trace]
    ELSE LET d == Dechunker_update(ds, bytes)
             s == StreamDecoder_update(sds, pal, d.event)
             i == RunInflater(dec, buf, s.event, trace)
         IN  IF d.err # "Ok" THEN [err |-> d.err, out |-> trace]
             ELSE IF d.event = None
                  THEN RunSlice(d.state, sds, pal, dec, buf, Drop(bytes, d.n), trace)
             ELSE IF s.err # "Ok" THEN [err |-> s.err, out |-> trace]
             ELSE IF s.event = None
                  THEN RunSlice(d.state, s.state, s.palette, dec, buf,
                                Drop(bytes, d.n), trace)
             ELSE IF i.err # "Ok" THEN [err |-> i.err, out |-> i.out]
             ELSE RunSlice(d.state, s.state, s.palette, i.dec, i.buf,
                           Drop(bytes, d.n), i.out)

\* the final events of the pipeline fed all of bytes in a single slice,
\* on an output window of cap bytes
RunWhole(bytes, cap) ==
    RunSlice(Dechunker_new, BeforeChunk, <<>>, InflateState_new,
             [i \in 1..cap |-> 0], bytes, <<>>)

\* ----------------------------------------------------------------- claims
\* C1: a valid PNG stream never fails, and once main has read it all and
\* drained every layer, in whatever slices the reads delivered it, the final
\* events (neighbouring ImageData joined) are those of the run that is given
\* the stream in a single slice.
C1_FragmentationInvariance ==
    stream \in ValidStreams =>
        /\ err = "Ok"
        /\ Finished =>
             LET w == RunWhole(stream, Len(output_buf))
             IN  w.err = "Ok" /\ out = w.out

\* a valid stream was delivered in two or more reads, decoded to the end,
\* and carried image data
C1_Witness ==
    /\ stream \in ValidStreams
    /\ Finished
    /\ reads = 2
    /\ \E i \in 1..Len(out) : out[i].kind = "ImageData" /\ Len(out[i].bytes) >= 2

\* C3: for a stream of the signature, one IHDR chunk, one IDAT chunk with a
\* complete zlib stream of B and one IEND chunk, the drained pipeline has
\* emitted exactly: ImageHeader with the seven fields of the IHDR payload,
\* ImageData events whose payloads joined are B, End.
C3_EndToEnd ==
    Finished =>
        \A p \in ValidParts :
            (p.mid = <<>> /\ p.k >= Len(compress_to_vec_zlib(p.B))
             /\ stream = StreamOf(p)) =>
                out = << [kind |-> "ImageHeader",
                          width |-> p.h[1] * 16777216 + p.h[2] * 65536
                                    + p.h[3] * 256 + p.h[4],
                          height |-> p.h[5] * 16777216 + p.h[6] * 65536
                                     + p.h[7] * 256 + p.h[8],
                          bit_depth |-> p.h[9],
                          colour_type |-> p.h[10],
                          compression_method |-> p.h[11],
                          filter_method |-> p.h[12],
                          interlace_method |-> p.h[13]],
                         [kind |-> "ImageData", bytes |-> p.B],
                         [kind |-> "End"] >>

\* the scenario of the specification, "hello" shortened to MaxLen bytes, was
\* decoded to the end from more than one read
C3_Witness ==
    /\ Finished
    /\ reads = 2
    /\ \E p \in ValidParts :
         /\ p.mid = <<>> /\ p.k >= Len(compress_to_vec_zlib(p.B))
         /\ Len(p.B) = MaxLen
         /\ stream = StreamOf(p)
    /\ Len(out) = 3
    /\ out[1].kind = "ImageHeader" /\ out[1].width = 1 /\ out[1].height = 2
    /\ out[3].kind = "End"

\* C4: a chunk of declared length 0 gets no Data event: in the Dechunker
\* events so far a BeginChunk with len 0 is followed by EndChunk or by nothing
\* yet, it is followed by EndChunk once the stream is read to its end, and the
\* call made in state InChunk with remaining 0 consumes 0 bytes, returns no
\* event and enters the check-value state.
C4_ZeroLengthChunk ==
    /\ \A i \in 1..Len(dc_trace) :
         (dc_trace[i].kind = "BeginChunk" /\ dc_trace[i].len = 0) =>
            /\ i < Len(dc_trace) => dc_trace[i + 1].kind = "EndChunk"
            /\ (Finished /\ stream \in ValidStreams) => i < Len(dc_trace)
    /\ (last.op = "Dechunker.update" /\ last.pre.tag = "InChunk"
        /\ last.pre.remaining = 0) =>
            /\ last.err = "Ok"
            /\ last.n = 0
            /\ last.event = None
            /\ last.post = CRCState(<<>>)

\* a zero-length IDAT chunk, cut from the bytes after it by the reads, has
\* been ended and the next chunk begun
C4_Witness ==
    /\ reads = 2
    /\ \E i \in 1..Len(dc_trace) :
         /\ dc_trace[i] = BeginChunk(0, IDAT)
         /\ i + 1 < Len(dc_trace)
         /\ dc_trace[i + 1] = EndChunk

\* the bytes the Dechunker has consumed
Consumed == Take(stream, fpos - Len(input))

\* C6: while the signature is compared, update fails with InvalidPngSignature
\* exactly when one of the bytes it compares (the first min(len, 8 - pos) of
\* its input) differs from the signature at its position, whatever the number
\* of bytes supplied so far; no event and no consumed byte precede the error,
\* and every byte consumed without error equals the signature's.
C6_SignatureRejection ==
    /\ (last.op = "Dechunker.update" /\ last.pre.tag = "PngSignature") =>
          LET n == Min(Len(last.input), 8 - last.pre.pos)
              mismatch == \E i \in 1..n :
                              last.input[i] # PNG_SIGNATURE[last.pre.pos + i]
          IN  /\ (last.err = "InvalidPngSignature") <=> mismatch
              /\ last.err \in {"Ok", "InvalidPngSignature"}
              /\ last.event = None
    /\ err = "InvalidPngSignature" => dc_trace = <<>> /\ out = <<>>
    /\ \A i \in 1..Min(8, Len(Consumed)) : Consumed[i] = PNG_SIGNATURE[i]

\* the signature was refused on a later call than the first, before eight
\* bytes had been supplied
C6_Witness ==
    /\ err = "InvalidPngSignature"
    /\ last.pre.pos > 0
    /\ fpos < 8

RECURSIVE CompleteChunks(_)
\* bytes is a sequence of whole chunks: length, type, payload, check value
CompleteChunks(bytes) ==
    \/ bytes = <<>>
    \/ /\ Len(bytes) >= 12
       /\ LET len == bytes[1] * 16777216 + bytes[2] * 65536 + bytes[3] * 256 + bytes[4]
          IN  Len(bytes) >= 12 + len /\ CompleteChunks(Drop(bytes, 12 + len))

\* C7: eof returns Ok exactly when the state is ChunkHeader with an empty
\* buffer, which is exactly when the bytes consumed so far are the signature
\* followed by whole chunks; otherwise it returns UnfinishedChunk.
C7_Eof ==
    last.op = "Dechunker.eof" =>
        /\ last.result = "Ok" <=> last.pre = ChunkHeaderState(<<>>)
        /\ last.result = "Ok" <=>
              /\ Len(Consumed) >= 8
              /\ Take(Consumed, 8) = PNG_SIGNATURE
              /\ CompleteChunks(Drop(Consumed, 8))
        /\ last.result \in {"Ok", "UnfinishedChunk"}

\* eof was refused in state InChunk with remaining 0
C7_Witness ==
    /\ last.op = "Dechunker.eof"
    /\ last.pre = InChunkState(0)
    /\ last.result = "UnfinishedChunk"

RECURSIVE DataOf(_)
\* the ImageData payloads of a trace, joined
DataOf(trace) ==
    IF trace = <<>> THEN <<>>
    ELSE (IF trace[1].kind = "ImageData" THEN trace[1].bytes ELSE <<>>)
         \o DataOf(Drop(trace, 1))

\* every byte of the stream has been handed over and every leftover drained
FinishedInflater == Idle /\ fpos = Len(stream)

\* C2: the compressed bytes of any B, handed to update as ImageData events in
\* any slices, each drained until the leftover is None, never fail, and once
\* all are handed over the payloads emitted, joined, are B; for every output
\* window from 1 to MaxWindow bytes.
C2_RoundTrip ==
    \A B \in Payloads :
        stream = compress_to_vec_zlib(B) =>
            /\ err = "Ok"
            /\ FinishedInflater => DataOf(out) = B

\* a payload longer than the output window came out whole from compressed
\* bytes handed over in several slices
C2_Witness ==
    /\ FinishedInflater
    /\ reads = 2
    /\ \E B \in Payloads : stream = compress_to_vec_zlib(B) /\ Len(B) > Len(output_buf)
    /\ Len(DataOf(out)) > Len(output_buf)

\* C5: in state BeforeChunk, update(BeginChunk{len, type}) fails exactly for
\* IHDR with len # 13 (InvalidImageHeaderLength), IEND with len # 0
\* (InvalidEndChunkSize) and PLTE with len not a multiple of 3 or above 768
\* (InvalidPaletteChunkSize); otherwise it returns (None, None) and enters
\* the state of the tag, IgnoredChunk for any other tag.
C5_StructuralRejection ==
    (last.op = "StreamDecoder.update" /\ last.pre.tag = "BeforeChunk"
     /\ last.input.kind = "BeginChunk") =>
        LET len == last.input.len
            type == last.input.type
            expected ==
                IF type = <<73, 72, 68, 82>> /\ len # 13
                THEN "InvalidImageHeaderLength"
                ELSE IF type = <<73, 69, 78, 68>> /\ len # 0
                THEN "InvalidEndChunkSize"
                ELSE IF type = <<80, 76, 84, 69>> /\ (len % 3 # 0 \/ len > 768)
                THEN "InvalidPaletteChunkSize"
                ELSE "Ok"
            tag == IF type = <<73, 72, 68, 82>> THEN "IHDR"
                   ELSE IF type = <<80, 76, 84, 69>> THEN "PLTE"
                   ELSE IF type = <<73, 68, 65, 84>> THEN "IDAT"
                   ELSE IF type = <<73, 69, 78, 68>> THEN "IEND"
                   ELSE "IgnoredChunk"
        IN  /\ last.err = expected
            /\ last.leftover = None
            /\ last.event = None
            /\ expected = "Ok" => last.post.tag = tag /\ sd_state.tag = tag

\* a PLTE header whose length is a multiple of 3 and above 768 was refused
C5_Witness ==
    /\ last.op = "StreamDecoder.update"
    /\ last.pre.tag = "BeforeChunk"
    /\ last.input = BeginChunk(771, PLTE)
    /\ last.err = "InvalidPaletteChunkSize"

\* C8: color_at(index) returns <<0, 0, 0>> when (index + 1) * 3 exceeds the
\* number of stored palette bytes, and the stored bytes 3 * index ..
\* 3 * index + 2 (counted from 0) otherwise, for every palette the calls
\* build (0 to 768 bytes, whole triples or not).
C8_ColorAt ==
    last.op = "Palette.color_at" =>
        /\ Len(palette) <= 768
        /\ last.result =
              IF (last.index + 1) * 3 > Len(palette)
              THEN <<0, 0, 0>>
              ELSE <<palette[3 * last.index + 1], palette[3 * last.index + 2],
                     palette[3 * last.index + 3]>>

\* the last entry of a full palette was read
C8_Witness ==
    /\ last.op = "Palette.color_at"
    /\ last.index = 255
    /\ Len(palette) = 768
    /\ last.result = <<254, 255, 0>>

\* C9: after a successful update(ImageData(bytes)) the leftover is
\* ImageData(bytes[bytes_consumed..]) if bytes_consumed < len(bytes), else
\* ImageData of the empty slice if bytes_written is the capacity of the output
\* window, else None; the event is ImageData of the first bytes_written bytes
\* of the output window.
C9_LeftoverRule ==
    (last.op = "Inflater.update" /\ last.input.kind = "ImageData"
     /\ last.err = "Ok") =>
        LET bytes == last.input.bytes
            c == last.bytes_consumed
            w == last.bytes_written
        IN  /\ c <= Len(bytes)
            /\ w <= Len(output_buf)
            /\ c < Len(bytes) =>
                  last.leftover = [kind |-> "ImageData",
                                   bytes |-> SubSeq(bytes, c + 1, Len(bytes))]
            /\ (c = Len(bytes) /\ w = Len(output_buf)) =>
                  last.leftover = [kind |-> "ImageData", bytes |-> <<>>]
            /\ (c = Len(bytes) /\ w < Len(output_buf)) => last.leftover = None
            /\ last.event = [kind |-> "ImageData", bytes |-> SubSeq(output_buf, 1, w)]

\* a step used up its input and filled the window: the leftover is the
\* empty slice
C9_Witness ==
    /\ last.op = "Inflater.update"
    /\ last.err = "Ok"
    /\ last.input.kind = "ImageData"
    /\ last.input.bytes # <<>>
    /\ last.bytes_consumed = Len(last.input.bytes)
    /\ last.bytes_written = Len(output_buf)
    /\ last.leftover = ImageData(<<>>)

\* C10: update(ImageHeader(h)) returns (None, ImageHeader(h)), update(End)
\* returns (None, End), and neither changes the decompressor or the output
\* window, before, during and after a compressed stream.
C10_Passthrough ==
    (last.op = "Inflater.update" /\ last.input.kind \in {"ImageHeader", "End"}) =>
        /\ last.err = "Ok"
        /\ last.leftover = None
        /\ last.event = last.input
        /\ decompressor = last.pre
        /\ output_buf = last.pre_buf

\* an ImageHeader passed through in the middle of a compressed stream, after
\* the window had been written to
C10_Witness ==
    /\ last.op = "Inflater.update"
    /\ last.input.kind = "ImageHeader"
    /\ last.event = ImageHeader(Header1)
    /\ decompressor.phase = "Value"
    /\ output_buf[1] # 0

\* C11: every successful StreamDecoder update, in whatever state and on
\* whatever chunk event, returns no leftover, and its event is none or a
\* single ImageHeader, ImageData or End.
C11_NoLeftover ==
    (last.op = "StreamDecoder.update" /\ last.err = "Ok") =>
        /\ last.leftover = [kind |-> "None"]
        /\ last.event.kind \in {"None", "ImageHeader", "ImageData", "End"}

\* a Data event of an IDAT chunk was turned into an ImageData event and
\* nothing of it was handed back
C11_Witness ==
    /\ last.op = "StreamDecoder.update"
    /\ last.err = "Ok"
    /\ last.pre.tag = "IDAT"
    /\ last.input.kind = "Data"
    /\ last.input.bytes # <<>>
    /\ last.event.kind = "ImageData"
    /\ last.leftover = None

\* C12: StreamDecoder eof returns Ok in every state the decoder is in
\* between two calls (before any chunk, inside an IHDR, PLTE, IDAT, ignored
\* or IEND chunk, before and after End was emitted) and leaves the state and
\* the palette as they were.
C12_EofAlwaysOk ==
    last.op = "StreamDecoder.eof" =>
        /\ last.result = "Ok"
        /\ sd_state = last.pre
        /\ palette = last.pre_palette

\* eof was accepted in the middle of an IHDR chunk, before any End
C12_Witness ==
    /\ last.op = "StreamDecoder.eof"
    /\ last.pre.tag = "IHDR"
    /\ Len(last.pre.buf) \in 1..12
    /\ last.result = "Ok"
    /\ \A i \in 1..Len(out) : out[i].kind # "End"

\* C13: Data in state IDAT comes out as ImageData with the same bytes and
\* the state stays IDAT; Data in state IgnoredChunk and in state PLTE yields
\* no event; EndChunk in IDAT, IgnoredChunk and PLTE returns to BeforeChunk
\* with no event; EndChunk in IEND emits End and returns to BeforeChunk.
C13_DataRouting ==
    last.op = "StreamDecoder.update" =>
        LET tag == last.pre.tag
            kind == last.input.kind
        IN  /\ (tag = "IDAT" /\ kind = "Data") =>
                  /\ last.err = "Ok"
                  /\ last.event = [kind |-> "ImageData", bytes |-> last.input.bytes]
                  /\ last.post.tag = "IDAT"
                  /\ sd_state.tag = "IDAT"
            /\ (tag = "IgnoredChunk" /\ kind = "Data") =>
                  /\ last.err = "Ok"
                  /\ last.event = [kind |-> "None"]
                  /\ sd_state.tag = "IgnoredChunk"
            /\ (tag = "PLTE" /\ kind = "Data") => last.event = [kind |-> "None"]
            /\ (tag \in {"IDAT", "IgnoredChunk", "PLTE"} /\ kind = "EndChunk") =>
                  /\ last.err = "Ok"
                  /\ last.event = [kind |-> "None"]
                  /\ sd_state.tag = "BeforeChunk"
            /\ (tag = "IEND" /\ kind = "EndChunk") =>
                  /\ last.err = "Ok"
                  /\ last.event = [kind |-> "End"]
                  /\ sd_state.tag = "BeforeChunk"

\* the payload of an ignored chunk was dropped, and the decoder stayed in
\* the chunk
C13_Witness ==
    /\ last.op = "StreamDecoder.update"
    /\ last.pre.tag = "IgnoredChunk"
    /\ last.input.kind = "Data"
    /\ Len(last.input.bytes) = 13
    /\ last.event = None
    /\ sd_state.tag = "IgnoredChunk"

\* C14: in state IHDR, entered by BeginChunk{IHDR, 13}, no Data call emits
\* an event, and the EndChunk call emits ImageHeader with width and height
\* the big-endian u32 of bytes 0..3 and 4..7 and the five other fields bytes
\* 8..12 of the payload (the Data slices delivered, joined, in whatever
\* slices they came) and returns to BeforeChunk.
C14_HeaderDecoding ==
    (last.op = "StreamDecoder.update" /\ last.pre.tag = "IHDR") =>
        /\ last.input.kind = "Data" =>
              /\ last.err = "Ok"
              /\ last.event = [kind |-> "None"]
              /\ sd_state.tag = "IHDR"
        /\ last.input.kind = "EndChunk" =>
              LET b == dc_trace[Len(dc_trace) - 1].bytes
              IN  /\ dc_trace[Len(dc_trace) - 2] =
                        [kind |-> "BeginChunk", len |-> 13, type |-> <<73, 72, 68, 82>>]
                  /\ Len(b) = 13
                  /\ last.err = "Ok"
                  /\ last.event =
                        [kind |-> "ImageHeader",
                         width |-> b[1] * 16777216 + b[2] * 65536 + b[3] * 256 + b[4],
                         height |-> b[5] * 16777216 + b[6] * 65536 + b[7] * 256 + b[8],
                         bit_depth |-> b[9],
                         colour_type |-> b[10],
                         compression_method |-> b[11],
                         filter_method |-> b[12],
                         interlace_method |-> b[13]]
                  /\ sd_state = [tag |-> "BeforeChunk", buf |-> <<>>]

\* a header was decoded from a payload that reads of one and two bytes had
\* cut into seven or more slices
C14_Witness ==
    /\ last.op = "StreamDecoder.update"
    /\ last.pre.tag = "IHDR"
    /\ last.input.kind = "EndChunk"
    /\ reads = 2
    /\ fpos = 33
    /\ last.event.kind = "ImageHeader"
    /\ last.event.width = 258
    /\ last.event.height = 196612
    /\ last.event.interlace_method = 1

\* C15: when the chunk events come from the Dechunker and every PLTE
\* BeginChunk passed the size check, streams with more than one PLTE chunk
\* included, the palette never holds more than 768 bytes and update never
\* fails with 'Too much data in PLTE chunk'.
C15_PaletteNeverOverflows ==
    /\ Len(palette) <= 768
    /\ err # "panic: Too much data in PLTE chunk"

\* C16: the drain loop of update on ImageData ends: no successful call hands
\* back as leftover the very input it was given while leaving the
\* decompressor and the output window as they were, for then the next call
\* is the same call and a leftover is returned forever.
C16_DrainTerminates ==
    (last.op = "Inflater.update" /\ last.input.kind = "ImageData"
     /\ last.err = "Ok") =>
        ~(/\ last.leftover = last.input
          /\ decompressor = last.pre
          /\ output_buf = last.pre_buf)

\* C17: every successful Dechunker update on a non-empty input consumes at
\* least one byte or changes the state; it consumes none only in InChunk
\* with remaining 0, which it leaves for the check-value state.  So twice
\* the length of the unconsumed input, plus one in InChunk with remaining 0,
\* is smaller after every call, and the loop that calls update on
\* input[consumed..] until the input is empty ends.
C17_DechunkerProgress ==
    (last.op = "Dechunker.update" /\ last.err = "Ok") =>
        LET waits(st) == IF st.tag = "InChunk" /\ st.remaining = 0 THEN 1 ELSE 0
            before == 2 * Len(last.input) + waits(last.pre)
            after == 2 * (Len(last.input) - last.n) + waits(last.post)
        IN  /\ last.input # <<>>
            /\ last.n <= Len(last.input)
            /\ last.n >= 1 \/ last.post # last.pre
            /\ last.n = 0 =>
                  /\ last.pre = [tag |-> "InChunk", pos |-> 0, buf |-> <<>>,
                                 remaining |-> 0]
                  /\ last.post = [tag |-> "CRC", pos |-> 0, buf |-> <<>>,
                                  remaining |-> 0]
            /\ after < before
            /\ d_state = last.post

\* a call on a non-empty input consumed nothing and moved from InChunk with
\* remaining 0 to the check-value state
C17_Witness ==
    /\ last.op = "Dechunker.update"
    /\ last.err = "Ok"
    /\ Len(last.input) >= 2
    /\ last.n = 0
    /\ last.pre.tag = "InChunk"
    /\ d_state.tag = "CRC"
    /\ input = last.input

RECURSIVE ChunkEventsOf(_)
\* the events of the chunks that bytes holds, whole or begun: BeginChunk
\* once the 8 header bytes are there, Data with the payload bytes that are
\* there, EndChunk once the 4 check-value bytes are there
ChunkEventsOf(bytes) ==
    IF Len(bytes) < 8 THEN <<>>
    ELSE LET len == bytes[1] * 16777216 + bytes[2] * 65536 + bytes[3] * 256 + bytes[4]
             there == IF Len(bytes) - 8 < len THEN Len(bytes) - 8 ELSE len
         IN  << [kind |-> "BeginChunk", len |-> len, type |-> SubSeq(bytes, 5, 8)] >>
             \o (IF there > 0
                 THEN << [kind |-> "Data", bytes |-> SubSeq(bytes, 9, 8 + there)] >>
                 ELSE <<>>)
             \o (IF Len(bytes) >= 12 + len
                 THEN << [kind |-> "EndChunk"] >> \o ChunkEventsOf(SubSeq(bytes, 13 + len, Len(bytes)))
                 ELSE <<>>)

\* C18: a call in InChunk consumes min(remaining, available) bytes, emits
\* them as one Data event, and emits none when that is 0 bytes; it enters
\* the check-value state exactly when remaining reaches 0; and under any
\* slicing the Data slices between BeginChunk{len} and its EndChunk, joined,
\* are the len bytes that follow the header in the stream, in order.
C18_PayloadConservation ==
    /\ (last.op = "Dechunker.update" /\ last.pre.tag = "InChunk") =>
          LET r == last.pre.remaining
              n == IF Len(last.input) < r THEN Len(last.input) ELSE r
          IN  /\ last.err = "Ok"
              /\ last.n = n
              /\ n > 0 => last.event = [kind |-> "Data",
                                        bytes |-> SubSeq(last.input, 1, n)]
              /\ n = 0 => last.event = [kind |-> "None"]
              /\ last.post.tag = "CRC" <=> r - n = 0
              /\ r - n > 0 => last.post = [tag |-> "InChunk", pos |-> 0,
                                           buf |-> <<>>, remaining |-> r - n]
    /\ (last.op = "Dechunker.update" /\ last.event.kind = "Data") =>
          last.event.bytes # <<>>
    /\ dc_trace = ChunkEventsOf(SubSeq(Consumed, 9, Len(Consumed)))

\* the last byte of a 3-byte payload came in a slice of its own, and the
\* slices joined are the payload
C18_Witness ==
    /\ last.op = "Dechunker.update"
    /\ last.pre.tag = "InChunk"
    /\ last.pre.remaining = 1
    /\ last.event = Data(<<3>>)
    /\ d_state.tag = "CRC"
    /\ dc_trace[Len(dc_trace)] = Data(<<1, 2, 3>>)
    /\ dc_trace[Len(dc_trace) - 1] = BeginChunk(3, PLTE)

\* C19: the Dechunker events of any stream under any slicing (neighbouring
\* Data events joined) are a prefix of (BeginChunk Data* EndChunk)*, so a StreamDecoder fed each of them in
\* order, until its first error, gets BeginChunk exactly in BeforeChunk, no
\* Data in IEND, and never fails with a protocol violation.
C19_EventGrammar ==
    /\ \A i \in 1..Len(dc_trace) :
          LET kind == dc_trace[i].kind
              prev == IF i = 1 THEN "EndChunk" ELSE dc_trace[i - 1].kind
          IN  /\ kind = "BeginChunk" => prev = "EndChunk"
              /\ kind = "Data" => prev = "BeginChunk"
              /\ kind = "EndChunk" => prev \in {"BeginChunk", "Data"}
    /\ last.op = "StreamDecoder.update" =>
          /\ last.input.kind = "BeginChunk" <=> last.pre.tag = "BeforeChunk"
          /\ last.pre.tag = "IEND" => last.input.kind = "EndChunk"
    /\ err \notin {"panic: Illegal event in BeforeChunk state",
                    "panic: Illegal BeginChunk inside of existing chunk",
                    "panic: Illegal event inside PLTE chunk",
                    "panic: Illegal event inside IDAT chunk",
                    "panic: Illegal event inside ignored chunk",
                    "panic: Data in IEND chunk",
                    "panic: Illegal event inside IEND chunk"}

\* a stream of five chunks, two of them palettes, was split and decoded to
\* its end from reads of one and two bytes and one of all the rest
C19_Witness ==
    /\ Finished
    /\ err = "Ok"
    /\ reads = 2
    /\ Len(dc_trace) = 14
    /\ dc_trace[4] = BeginChunk(3, PLTE)
    /\ dc_trace[7] = BeginChunk(3, PLTE)
    /\ dc_trace[14] = EndChunk

\* C20: with the chunk events coming from a Dechunker, the IHDR scratch
\* buffer never takes more than 13 bytes on a Data event and holds exactly
\* 13 bytes at the IHDR EndChunk: neither 'Too much data in IHDR chunk' nor
\* 'Got IHDR EndChunk, but buffer is not filled!' is reached.
C20_HeaderScratchSafety ==
    /\ Len(sd_state.buf) <= 13
    /\ err \notin {"panic: Too much data in IHDR chunk",
                    "panic: Got IHDR EndChunk, but buffer is not filled!"}
    /\ (last.op = "StreamDecoder.update" /\ last.pre.tag = "IHDR") =>
          /\ last.err = "Ok"
          /\ last.input.kind = "Data" =>
                Len(last.pre.buf) + Len(last.input.bytes) <= 13
          /\ last.input.kind = "EndChunk" => Len(last.pre.buf) = 13

\* the last two bytes of an IHDR payload filled the scratch buffer, which
\* held eleven
C20_Witness ==
    /\ last.op = "StreamDecoder.update"
    /\ last.pre.tag = "IHDR"
    /\ last.input.kind = "Data"
    /\ Len(last.pre.buf) = 11
    /\ Len(last.input.bytes) = 2
    /\ Len(sd_state.buf) = 13
    /\ err = "Ok"

RECURSIVE ZeroCheckValues(_)
\* the chunks of bytes with every check-value byte replaced by 0
ZeroCheckValues(bytes) ==
    IF Len(bytes) < 8 THEN bytes
    ELSE LET len == bytes[1] * 16777216 + bytes[2] * 65536 + bytes[3] * 256 + bytes[4]
             body == IF Len(bytes) < 8 + len THEN Len(bytes) ELSE 8 + len
             crc == IF Len(bytes) - body < 4 THEN Len(bytes) - body ELSE 4
         IN  SubSeq(bytes, 1, body) \o [i \in 1..crc |-> 0]
             \o ZeroCheckValues(SubSeq(bytes, body + crc + 1, Len(bytes)))

\* C22: in the check-value state update takes any 4 bytes, under any
\* slicing: it emits EndChunk on the call that supplies the 4th and returns
\* to the empty ChunkHeader state, and emits nothing before.  The events of
\* a stream are those of the stream with its check values set to 0, and no
\* layer returns ChecksumMismatch.
C22_CheckValueIgnored ==
    /\ (last.op = "Dechunker.update" /\ last.pre.tag = "CRC") =>
          LET have == Len(last.pre.buf)
              n == IF Len(last.input) < 4 - have THEN Len(last.input) ELSE 4 - have
          IN  /\ last.err = "Ok"
              /\ have < 4
              /\ last.n = n
              /\ have + n = 4 =>
                    /\ last.event = [kind |-> "EndChunk"]
                    /\ last.post = [tag |-> "ChunkHeader", pos |-> 0, buf |-> <<>>,
                                    remaining |-> 0]
              /\ have + n < 4 =>
                    /\ last.event = [kind |-> "None"]
                    /\ last.post = [tag |-> "CRC", pos |-> 0,
                                    buf |-> last.pre.buf \o SubSeq(last.input, 1, n),
                                    remaining |-> 0]
    /\ err # "ChecksumMismatch"
    /\ dc_trace = ChunkEventsOf(ZeroCheckValues(SubSeq(Consumed, 9, Len(Consumed))))
    /\ Finished =>
          LET zeroed == SubSeq(stream, 1, 8)
                        \o ZeroCheckValues(SubSeq(stream, 9, Len(stream)))
              w == RunWhole(zeroed, Len(output_buf))
          IN  w.err = "Ok" /\ out = w.out

\* the 4th byte of a check value that is not the payload's, and not 0, came
\* in a slice of its own and ended the chunk
C22_Witness ==
    /\ last.op = "Dechunker.update"
    /\ last.pre = CRCState(<<222, 173, 190>>)
    /\ last.input[1] = 239
    /\ last.event = EndChunk
    /\ d_state = ChunkHeaderState(<<>>)
    /\ err = "Ok"

\* C23: in BeforeChunk a BeginChunk with the IDAT tag is accepted with any
\* length and enters state IDAT, as the very first chunk as well as after
\* any others, header or no header; the Data that follows comes out as
\* ImageData; and update never returns NoImageHeader.
C23_RelaxedOrdering ==
    /\ (last.op = "StreamDecoder.update" /\ last.pre.tag = "BeforeChunk"
        /\ last.input.kind = "BeginChunk"
        /\ last.input.type = <<73, 68, 65, 84>>) =>
          /\ last.err = "Ok"
          /\ last.event = [kind |-> "None"]
          /\ sd_state.tag = "IDAT"
    /\ (last.op = "StreamDecoder.update" /\ last.pre.tag = "IDAT"
        /\ last.input.kind = "Data") =>
          /\ last.err = "Ok"
          /\ last.event = [kind |-> "ImageData", bytes |-> last.input.bytes]
    /\ err # "NoImageHeader"

\* an IDAT chunk was the very first chunk, and its Data came out as
\* ImageData on the second call
C23_Witness ==
    /\ fpos = 2
    /\ last.op = "StreamDecoder.update"
    /\ last.pre.tag = "IDAT"
    /\ last.input.kind = "Data"
    /\ Len(last.input.bytes) = 3
    /\ last.event = ImageData(last.input.bytes)

\* C24: in the signature state a successful update consumes
\* min(len(input), 8 - pos) bytes, the signature bytes still missing at
\* most, and leaves the bytes after them unconsumed; it emits no event; and
\* it enters the empty ChunkHeader state exactly on the call that brings the
\* matched bytes to 8, under any slicing.
C24_SignaturePhase ==
    /\ (last.op = "Dechunker.update" /\ last.pre.tag = "PngSignature") =>
          LET pos == last.pre.pos
              n == IF Len(last.input) < 8 - pos THEN Len(last.input) ELSE 8 - pos
          IN  /\ pos < 8
              /\ last.event = [kind |-> "None"]
              /\ last.err = "Ok" =>
                    /\ last.n = n
                    /\ SubSeq(last.input, 1, n) = SubSeq(<<137, 80, 78, 71, 13, 10, 26, 10>>,
                                                         pos + 1, pos + n)
                    /\ pos + n = 8 =>
                          last.post = [tag |-> "ChunkHeader", pos |-> 0, buf |-> <<>>,
                                       remaining |-> 0]
                    /\ pos + n < 8 =>
                          last.post = [tag |-> "PngSignature", pos |-> pos + n,
                                       buf |-> <<>>, remaining |-> 0]
    /\ d_state.tag = "PngSignature" =>
          /\ Len(Consumed) = d_state.pos
          /\ dc_trace = <<>>
    /\ d_state.tag # "PngSignature" =>
          /\ Len(Consumed) >= 8
          /\ SubSeq(Consumed, 1, 8) = <<137, 80, 78, 71, 13, 10, 26, 10>>

\* the last signature byte came first in a slice of two, and the second
\* byte of the slice was left for the chunk header
C24_Witness ==
    /\ last.op = "Dechunker.update"
    /\ last.pre = PngSignatureState(7)
    /\ Len(last.input) = 2
    /\ last.n = 1
    /\ d_state = ChunkHeaderState(<<>>)
    /\ input = Drop(last.input, 1)

\* C25: an update of the Dechunker that returns InvalidPngSignature leaves
\* the signature position as it was and absorbs no byte of its input; an
\* update of the StreamDecoder that returns InvalidImageHeaderLength,
\* InvalidEndChunkSize or InvalidPaletteChunkSize leaves the state
\* BeforeChunk and the palette as it was.
C25_ErrorsKeepState ==
    /\ (last.op = "Dechunker.update" /\ last.err = "InvalidPngSignature") =>
          /\ last.pre.tag = "PngSignature"
          /\ last.post = last.pre
          /\ d_state = last.pre
          /\ Len(Consumed) = last.pre.pos
    /\ (last.op = "StreamDecoder.update"
        /\ last.err \in {"InvalidImageHeaderLength", "InvalidEndChunkSize",
                          "InvalidPaletteChunkSize"}) =>
          /\ last.pre = [tag |-> "BeforeChunk", buf |-> <<>>]
          /\ sd_state = last.pre
          /\ palette = last.pre_palette
          /\ last.event = [kind |-> "None"]

\* an IEND chunk with a payload was refused after a header had been
\* decoded, and the decoder is still before a chunk
C25_Witness ==
    /\ last.op = "StreamDecoder.update"
    /\ last.err = "InvalidEndChunkSize"
    /\ last.input = BeginChunk(1, IEND)
    /\ sd_state = BeforeChunk
    /\ Len(out) = 1

\* C26: with the StreamDecoder fed by a Dechunker, every ImageData event it
\* emits has a non-empty payload, as every Data event of the Dechunker has,
\* so print_window_size reads data[0] in bounds, for any stream and any
\* size of the input buffer.
C26_ImageDataNonEmpty ==
    /\ (last.op = "Dechunker.update" /\ last.event.kind = "Data") =>
          Len(last.event.bytes) >= 1
    /\ (last.op = "StreamDecoder.update" /\ last.event.kind = "ImageData") =>
          /\ last.input.kind = "Data"
          /\ Len(last.event.bytes) >= 1
          /\ window_size(last.event).err = "Ok"
          /\ window_size(last.event).size = 2 ^ ((last.input.bytes[1] \div 16) + 8)

\* the first ImageData event held one byte, the first of the zlib stream,
\* after an IDAT chunk of length 0 had yielded none
C26_Witness ==
    /\ last.op = "StreamDecoder.update"
    /\ last.event.kind = "ImageData"
    /\ last.event.bytes = <<120>>
    /\ window_size(last.event).size = 32768
    /\ out = <<ImageHeader(Header2)>>
    /\ \E i \in 1..Len(dc_trace) : dc_trace[i] = BeginChunk(0, IDAT)

\* C27: between update calls the signature position is below 8, the
\* chunk-header buffer holds fewer than 8 bytes and the check-value buffer
\* fewer than 4; so a call appends min(len(input), capacity - len) bytes
\* within the capacity of the buffer, and compares input with signature
\* bytes pos .. pos + n - 1, which exist.
C27_ScratchInvariant ==
    /\ d_state.tag = "PngSignature" => d_state.pos < 8
    /\ d_state.tag = "ChunkHeader" => Len(d_state.buf) < 8
    /\ d_state.tag = "CRC" => Len(d_state.buf) < 4
    /\ d_state.tag \in {"PngSignature", "ChunkHeader", "InChunk", "CRC"}
    /\ last.op = "Dechunker.update" =>
          /\ last.pre.tag = "PngSignature" => last.pre.pos + last.n <= 8
          /\ last.pre.tag = "ChunkHeader" => Len(last.pre.buf) + last.n <= 8
          /\ last.pre.tag = "CRC" => Len(last.pre.buf) + last.n <= 4
          /\ last.n <= Len(last.input)

\* the chunk-header buffer held 7 bytes and took one byte of a slice of
\* two; the state after the call has no buffer left over
C27_Witness ==
    /\ last.op = "Dechunker.update"
    /\ last.pre.tag = "ChunkHeader"
    /\ Len(last.pre.buf) = 7
    /\ Len(last.input) = 2
    /\ last.n = 1
    /\ d_state.tag = "InChunk"

====
